---- MODULE Spec2Model ----
(***************************************************************************)
(* Model of src/index.js: the Express chat endpoint POST /api/chat with    *)
(* its process-wide conversation store, and the LangChain pipeline         *)
(* (standalone question -> retrieval -> answer) it awaits.                 *)
(*                                                                         *)
(* JavaScript runs each handler to its next await without interleaving,    *)
(* so one action is one synchronous run of the handler: from the request   *)
(* to the first downstream call, and from the return of one downstream     *)
(* call to the issue of the next (or to the HTTP response).                *)
(*                                                                         *)
(* Arrays are JavaScript objects: a variable holds a reference.  heap maps *)
(* array references to their contents, and userConvHistories and the       *)
(* handler's local convHistory hold references.                            *)
(***************************************************************************)
EXTENDS Integers, Sequences, FiniteSets, TLC

\* ---------------------------------------------------------------- bounds
MaxRequests == 2      \* chat requests received in one run
MaxIngestions == 2    \* load-documents requests received in one run
MaxCombine == 5       \* documents in one argument of combineDocuments

\* ---------------------------------------------------------------- inputs
UserIds == {"ip1", "ip2"}               \* req.ip
Questions == {"q1", "q2"}               \* req.body.question
StandaloneQuestions == {"sq1"}          \* outputs of the rewriter call
PageContents == {"d1", "d2"}            \* pageContent of stored documents
Answers == {"a1", "a2"}                 \* outputs of the synthesis call

Pages == {"A", "B", "C"}                \* the URLs of the crawled site; req.body.url

Requests == 1..MaxRequests
Ingestions == 1..MaxIngestions
Undefined == 0                          \* userConvHistories[userId] of an unknown user
ArrayRefs == Requests                   \* request r allocates at most one array: reference r

VARIABLES
  userConvHistories,  \* userId -> array reference, or Undefined
  heap,               \* array reference -> the array's elements
  nextReq,            \* number of requests received so far
  req,                \* request -> the handler's locals and position
  calls,              \* request -> downstream calls issued, in order
  replies,            \* request -> HTTP responses sent, in order
  trace,              \* request -> pipeline states passed, in order
  before,             \* request -> stored transcript of its user when it arrived
  overlapped,         \* request -> another request of its user was in flight with it
  site,               \* page -> the pages it links to (the crawled web site)
  index,              \* the rows of the 'documents' table, in insertion order
  nextIng,            \* number of load-documents requests received so far
  ing,                \* load-documents request -> the handler's locals and position
  crawlSeed,          \* the seed URL of a crawl
  crawled,            \* the pages that crawl returned, once it has
  cdocs,              \* an argument of combineDocuments
  ccontext            \* its result, once computed

chatVars == <<userConvHistories, heap, nextReq, req, calls, replies, trace, before, overlapped>>

ingestVars == <<site, index, nextIng, ing, crawlSeed, crawled>>

combineVars == <<cdocs, ccontext>>

vars == <<chatVars, ingestVars, combineVars>>

\* ---------------------------------------------------------------- helpers
RECURSIVE JoinStr(_, _)
JoinStr(strs, sep) ==
  IF Len(strs) = 0 THEN ""
  ELSE IF Len(strs) = 1 THEN strs[1]
  ELSE strs[1] \o sep \o JoinStr(Tail(strs), sep)

formatConvHistory(messages) == JoinStr(messages, "\n")

HumanEntry(question) == "Human: " \o question

AIEntry(response) == "AI: " \o response

RECURSIVE PageContentsOf(_)
PageContentsOf(docs) ==
  IF Len(docs) = 0 THEN <<>>
  ELSE <<docs[1].pageContent>> \o PageContentsOf(Tail(docs))

\* documents joined by a single line break
combineDocumentsOneBreak(docs) == JoinStr(PageContentsOf(docs), "\n")

combineDocuments(docs) == JoinStr(PageContentsOf(docs), "\n\n")

Documents == [pageContent : PageContents]

\* what the retriever returns for a query: nothing, or two documents in order
DocLists == {<<>>, <<[pageContent |-> "d1"], [pageContent |-> "d2"]>>}

\* The stored transcript of a user: what the Conversation Store holds for it.
Transcript(u) ==
  IF userConvHistories[u] = Undefined THEN <<>> ELSE heap[userConvHistories[u]]

\* The stored transcript of a user after the step.
TranscriptNext(u) ==
  IF userConvHistories'[u] = Undefined THEN <<>> ELSE heap'[userConvHistories'[u]]

IsPrefix(s, t) == Len(s) <= Len(t) /\ SubSeq(t, 1, Len(s)) = s

Range(s) == {s[i] : i \in 1..Len(s)}

InFlight(r) == req[r].pc \in {"rewriting", "retrieving", "synthesizing"}

Terminated(r) == req[r].pc \in {"RESPONDED", "FAILED"}

NoValue == "<none>"

IdleRequest ==
  [pc |-> "idle", userId |-> NoValue, question |-> NoValue, convHistory |-> Undefined,
   conv_history |-> NoValue, standalone_question |-> NoValue, context |-> NoValue,
   response |-> NoValue, stalled |-> FALSE]

\* ---------------------------------------------------------------- Init
IdleIngestion ==
  [pc |-> "idle", url |-> NoValue, docs |-> <<>>, output |-> <<>>, stored |-> 0,
   replies |-> <<>>]

\* no load-documents request is received
IngestIdle ==
  /\ site = [p \in Pages |-> {}]
  /\ index = <<>>
  /\ nextIng = 0
  /\ ing = [i \in Ingestions |-> IdleIngestion]
  /\ crawlSeed = NoValue
  /\ crawled = <<>>

CombineIdle == cdocs = <<>> /\ ccontext = NoValue

ChatInit ==
  /\ userConvHistories = [u \in UserIds |-> Undefined]
  /\ heap = [a \in ArrayRefs |-> <<>>]
  /\ nextReq = 0
  /\ req = [r \in Requests |-> IdleRequest]
  /\ calls = [r \in Requests |-> <<>>]
  /\ replies = [r \in Requests |-> <<>>]
  /\ trace = [r \in Requests |-> <<>>]
  /\ before = [r \in Requests |-> <<>>]
  /\ overlapped = [r \in Requests |-> FALSE]

Init == ChatInit /\ IngestIdle /\ CombineIdle

\* ---------------------------------------------------------------- the chain
\* a store that keeps one history for all users
LoadConvHistoryAnyUser(u, r) ==
  IF \E v \in UserIds : userConvHistories[v] # Undefined
  THEN userConvHistories[CHOOSE v \in UserIds : userConvHistories[v] # Undefined]
  ELSE r

\* line 85: userConvHistories[userId] || []  (r is the reference of a fresh array)
LoadConvHistory(u, r) ==
  IF userConvHistories[u] # Undefined THEN userConvHistories[u] ELSE r

\* lines 60-62, 67: the rewriter prompt's substitutions, from the chain's input
StandaloneQuestionInput(input) ==
  [conv_history |-> input.conv_history, question |-> input.question]

\* a retriever fed the request's question instead of the rewritten one
RetrieverQueryOriginal(prevResult) == prevResult.original_input.question

\* line 52: the retriever's query, from the first step's result
RetrieverQuery(prevResult) == prevResult.standalone_question

\* an answer prompt fed the rewritten question instead of the original one
AnswerInputRewritten(prevResult, context) ==
  [context |-> context,
   question |-> prevResult.standalone_question,
   conv_history |-> prevResult.original_input.conv_history]

\* lines 70-74: what the second step hands to answerChain
AnswerInput(prevResult, context) ==
  [context |-> context,
   question |-> prevResult.original_input.question,
   conv_history |-> prevResult.original_input.conv_history]

\* a catch block that reports which stage failed
CatchResponseByStage(stage) == [status |-> 500, body |-> [error |-> stage]]

\* lines 104-107: the response of the catch block
CatchResponse(stage) == [status |-> 500, body |-> [error |-> "Internal Server Error"]]

\* a handler that logs and forgets to respond
SendNothing(sent, response) == sent

\* lines 103, 106: res.json(...) sends one response
SendResponse(sent, response) == Append(sent, response)

\* line 103
OkResponse(response) == [status |-> 200, body |-> [response |-> response]]

\* a chain input whose history is formatted anew each time it is read
OriginalInputLive(r) ==
  [question |-> req[r].question, conv_history |-> formatConvHistory(heap[req[r].convHistory])]

\* the chain's input object of request r (lines 91-94)
OriginalInput(r) == [question |-> req[r].question, conv_history |-> req[r].conv_history]

\* the result of the chain's first step (lines 66-69)
FirstStepResult(r, sq) == [standalone_question |-> sq, original_input |-> OriginalInput(r)]

\* ---------------------------------------------------------------- actions
\* lines 79-94: the handler up to its await; the rewriter call is issued.
ChatReceive(u, q) ==
  /\ nextReq < MaxRequests
  /\ LET r == nextReq + 1
         convHistory == LoadConvHistory(u, r)
         pushed == Append(heap[convHistory], HumanEntry(q))
         input == [question |-> q, conv_history |-> formatConvHistory(pushed)]
         peers == {p \in Requests : InFlight(p) /\ req[p].userId = u}
     IN /\ nextReq' = r
        /\ heap' = [heap EXCEPT ![convHistory] = pushed]
        /\ req' = [req EXCEPT ![r] =
                     [IdleRequest EXCEPT !.pc = "rewriting", !.userId = u, !.question = q,
                                         !.convHistory = convHistory,
                                         !.conv_history = input.conv_history]]
        /\ calls' = [calls EXCEPT ![r] =
                       <<[stage |-> "rewriter", args |-> StandaloneQuestionInput(input)]>>]
        /\ trace' = [trace EXCEPT ![r] = <<"RECEIVED", "HISTORY_LOADED">>]
        /\ before' = [before EXCEPT ![r] = Transcript(u)]
        /\ overlapped' = [p \in Requests |->
                            IF p \in peers THEN TRUE
                            ELSE IF p = r THEN peers # {} ELSE overlapped[p]]
  /\ UNCHANGED <<ingestVars, combineVars, userConvHistories, replies>>

\* lines 66-69 done, lines 51-53 begin: the rewriter returned, the retriever is called.
RewriterReturn(r, sq) ==
  /\ req[r].pc = "rewriting" /\ ~req[r].stalled
  /\ req' = [req EXCEPT ![r].pc = "retrieving", ![r].standalone_question = sq]
  /\ calls' = [calls EXCEPT ![r] =
                 Append(@, [stage |-> "retriever",
                            args |-> [query |-> RetrieverQuery(FirstStepResult(r, sq))]])]
  /\ trace' = [trace EXCEPT ![r] = Append(@, "QUESTION_REWRITTEN")]
  /\ UNCHANGED <<ingestVars, combineVars, userConvHistories, heap, nextReq, replies, before, overlapped>>

\* lines 53-54, 70-75: the retriever returned, the documents are combined and
\* the synthesis call is issued.
RetrieverReturn(r, docs) ==
  /\ req[r].pc = "retrieving" /\ ~req[r].stalled
  /\ LET context == combineDocuments(docs)
     IN /\ req' = [req EXCEPT ![r].pc = "synthesizing", ![r].context = context]
        /\ calls' = [calls EXCEPT ![r] =
                       Append(@, [stage |-> "synthesis",
                                  args |-> AnswerInput(
                                             FirstStepResult(r, req[r].standalone_question),
                                             context)])]
  /\ trace' = [trace EXCEPT ![r] = Append(@, "CONTEXT_RETRIEVED")]
  /\ UNCHANGED <<ingestVars, combineVars, userConvHistories, heap, nextReq, replies, before, overlapped>>

\* a handler that responds without pushing the answer and saving
SynthesisReturnUnsaved(r, answer) ==
  /\ req[r].pc = "synthesizing" /\ ~req[r].stalled
  /\ req' = [req EXCEPT ![r].pc = "RESPONDED", ![r].response = answer]
  /\ replies' = [replies EXCEPT ![r] = SendResponse(@, OkResponse(answer))]
  /\ trace' = [trace EXCEPT ![r] =
                 @ \o <<"ANSWER_SYNTHESIZED", "HISTORY_APPENDED", "RESPONDED">>]
  /\ UNCHANGED <<ingestVars, combineVars, userConvHistories, heap, nextReq, calls, before,
                 overlapped>>

\* lines 96-103: the chain resolved; push the answer, save, respond.
SynthesisReturn(r, answer) ==
  /\ req[r].pc = "synthesizing" /\ ~req[r].stalled
  /\ heap' = [heap EXCEPT ![req[r].convHistory] = Append(@, AIEntry(answer))]
  /\ userConvHistories' = [userConvHistories EXCEPT ![req[r].userId] = req[r].convHistory]
  /\ req' = [req EXCEPT ![r].pc = "RESPONDED", ![r].response = answer]
  /\ replies' = [replies EXCEPT ![r] = SendResponse(@, OkResponse(answer))]
  /\ trace' = [trace EXCEPT ![r] =
                 @ \o <<"ANSWER_SYNTHESIZED", "HISTORY_APPENDED", "RESPONDED">>]
  /\ UNCHANGED <<ingestVars, combineVars, nextReq, calls, before, overlapped>>

\* a catch block that starts the chain again instead of giving up
ChatCatchRetry(r) ==
  /\ InFlight(r) /\ ~req[r].stalled
  /\ req' = [req EXCEPT ![r].pc = "rewriting"]
  /\ calls' = [calls EXCEPT ![r] =
                 Append(@, [stage |-> "rewriter",
                            args |-> StandaloneQuestionInput(OriginalInput(r))])]
  /\ trace' = [trace EXCEPT ![r] = Append(@, "FAILED")]
  /\ UNCHANGED <<ingestVars, combineVars, userConvHistories, heap, nextReq, replies, before, overlapped>>

\* lines 104-107: the awaited chain rejected at whichever stage is in flight.
ChatCatch(r) ==
  /\ InFlight(r) /\ ~req[r].stalled
  /\ req' = [req EXCEPT ![r].pc = "FAILED"]
  /\ replies' = [replies EXCEPT ![r] = SendResponse(@, CatchResponse(req[r].pc))]
  /\ trace' = [trace EXCEPT ![r] = Append(@, "FAILED")]
  /\ UNCHANGED <<ingestVars, combineVars, userConvHistories, heap, nextReq, calls, before, overlapped>>

\* line 91: the await has no timeout; a downstream call that never returns
\* leaves the handler suspended.
DownstreamStall(r) ==
  /\ InFlight(r) /\ ~req[r].stalled
  /\ req' = [req EXCEPT ![r].stalled = TRUE]
  /\ UNCHANGED <<ingestVars, combineVars, userConvHistories, heap, nextReq, calls, replies, trace, before, overlapped>>

StageDone(r) ==
  \/ \E sq \in StandaloneQuestions : RewriterReturn(r, sq)
  \/ \E docs \in DocLists : RetrieverReturn(r, docs)
  \/ \E answer \in Answers : SynthesisReturn(r, answer)
  \/ ChatCatch(r)

Next ==
  \/ \E u \in UserIds, q \in Questions : ChatReceive(u, q)
  \/ \E r \in Requests, sq \in StandaloneQuestions : RewriterReturn(r, sq)
  \/ \E r \in Requests, docs \in DocLists : RetrieverReturn(r, docs)
  \/ \E r \in Requests, answer \in Answers : SynthesisReturn(r, answer)
  \/ \E r \in Requests : ChatCatch(r)
  \/ \E r \in Requests : DownstreamStall(r)

Spec == Init /\ [][Next]_vars

\* Every downstream call that is not stalled eventually returns or fails, and
\* the event loop then resumes the handler.
LiveSpec == Spec /\ \A r \in Requests : WF_vars(StageDone(r))

\* ---------------------------------------------------------------- a later start
\* The server after ip1's first request was answered: ip1 has a stored
\* transcript (array WarmRef), ip2 has none.
WarmRef == MaxRequests + 1

WarmTranscript == <<HumanEntry("q1"), AIEntry("a1")>>

WarmInit ==
  /\ userConvHistories = [u \in UserIds |-> IF u = "ip1" THEN WarmRef ELSE Undefined]
  /\ heap = [a \in ArrayRefs \cup {WarmRef} |-> IF a = WarmRef THEN WarmTranscript ELSE <<>>]
  /\ nextReq = 0
  /\ req = [r \in Requests |-> IdleRequest]
  /\ calls = [r \in Requests |-> <<>>]
  /\ replies = [r \in Requests |-> <<>>]
  /\ trace = [r \in Requests |-> <<>>]
  /\ before = [r \in Requests |-> <<>>]
  /\ overlapped = [r \in Requests |-> FALSE]
  /\ IngestIdle /\ CombineIdle

WarmSpec == WarmInit /\ [][Next]_vars

\* ---------------------------------------------------------------- combineDocuments
\* the arguments combineDocuments is applied to
CombineArgs == UNION {[1..n -> Documents] : n \in 0..MaxCombine}

CombineInit == ChatInit /\ IngestIdle /\ cdocs \in CombineArgs /\ ccontext = NoValue

\* lines 147-150 applied to cdocs
CombineApply ==
  /\ ccontext = NoValue
  /\ ccontext' = combineDocuments(cdocs)
  /\ UNCHANGED <<chatVars, ingestVars, cdocs>>

CombineNext == CombineApply

CombineSpec == CombineInit /\ [][CombineNext]_vars

\* ---------------------------------------------------------------- ingestion
MaxDepth == 1000      \* line 121

ChunkSize == 2        \* page texts that fit in one chunk of the splitter (line 128)

PageOrder == <<"A", "B", "C">>          \* the order in which links are followed

\* lines 116, 120: the extractor's text of a fetched page
PageText(p) == "text of " \o p

\* a crawl that does not count its seed as visited
InitiallyVisitedNone(seed) == {}

\* the URLs a crawl has visited when it starts
InitiallyVisited(seed) == {seed}

\* breadth-first crawl: frontier by frontier, skipping URLs already visited
RECURSIVE CrawlLevels(_, _, _, _, _)
CrawlLevels(links, frontier, visited, found, depth) ==
  IF depth = 0 \/ Len(frontier) = 0 THEN found
  ELSE LET new == UNION {links[frontier[i]] : i \in 1..Len(frontier)} \ visited
           next == SelectSeq(PageOrder, LAMBDA p : p \in new)
       IN CrawlLevels(links, next, visited \cup new, found \o next, depth - 1)

\* lines 119-125: loader.load(): the pages fetched, in order
Crawl(links, seed, maxDepth) ==
  CrawlLevels(links, <<seed>>, InitiallyVisited(seed), <<seed>>, maxDepth)

\* line 131: JSON.stringify(docs), as the sequence of the documents' texts
Stringify(docs) == [i \in 1..Len(docs) |-> PageText(docs[i])]

\* lines 128-131: splitter.createDocuments([blob])
RECURSIVE SplitText(_)
SplitText(blob) ==
  IF Len(blob) = 0 THEN <<>>
  ELSE IF Len(blob) <= ChunkSize THEN <<JoinStr(blob, "")>>
  ELSE <<JoinStr(SubSeq(blob, 1, ChunkSize), "")>>
         \o SplitText(SubSeq(blob, ChunkSize + 1, Len(blob)))

\* a store that replaces the rows of equal content
AddRecordReplacing(rows, row) ==
  Append(SelectSeq(rows, LAMBDA x : x.content # row.content), row)

\* lines 134-137: fromDocuments inserts a row for a document; it passes no id
\* and deletes nothing
AddRecord(rows, row) == Append(rows, row)

\* line 139
SuccessResponse == [status |-> 200, body |-> [success |-> TRUE]]

IngestInFlight(i) == ing[i].pc \in {"crawling", "storing"}

\* the sites ingested: unlinked pages, A <-> B, A -> B -> C, a ring, all links
IngestSites ==
  {[p \in Pages |-> {}],
   [p \in Pages |-> IF p = "A" THEN {"B"} ELSE IF p = "B" THEN {"A"} ELSE {}],
   [p \in Pages |-> IF p = "A" THEN {"B"} ELSE IF p = "B" THEN {"C"} ELSE {}],
   [p \in Pages |-> IF p = "A" THEN {"B"} ELSE IF p = "B" THEN {"C"} ELSE {"A"}],
   [p \in Pages |-> Pages]}

IngestInit ==
  /\ ChatInit /\ CombineIdle
  /\ site \in IngestSites
  /\ index = <<>>
  /\ nextIng = 0
  /\ ing = [i \in Ingestions |-> IdleIngestion]
  /\ crawlSeed = NoValue
  /\ crawled = <<>>

\* lines 111-125: the handler up to its first await; the crawl starts.
IngestReceive(url) ==
  /\ nextIng < MaxIngestions
  /\ nextIng' = nextIng + 1
  /\ ing' = [ing EXCEPT ![nextIng + 1] = [IdleIngestion EXCEPT !.pc = "crawling", !.url = url]]
  /\ UNCHANGED <<chatVars, combineVars, crawlSeed, crawled, site, index>>

\* lines 125-137: the crawl returned; the documents are serialised and split,
\* and fromDocuments is called (embedding, then the rows are written).
CrawlReturn(i) ==
  /\ ing[i].pc = "crawling"
  /\ LET docs == Crawl(site, ing[i].url, MaxDepth)
     IN ing' = [ing EXCEPT ![i].pc = "storing", ![i].docs = docs,
                           ![i].output = SplitText(Stringify(docs))]
  /\ UNCHANGED <<chatVars, combineVars, crawlSeed, crawled, site, index, nextIng>>

\* lines 134-137: the table receives the next row of the ingestion.
StoreRecord(i) ==
  /\ ing[i].pc = "storing"
  /\ ing[i].stored < Len(ing[i].output)
  /\ index' = AddRecord(index, [content |-> ing[i].output[ing[i].stored + 1], by |-> i])
  /\ ing' = [ing EXCEPT ![i].stored = @ + 1]
  /\ UNCHANGED <<chatVars, combineVars, crawlSeed, crawled, site, nextIng>>

\* lines 134-139: fromDocuments resolved; respond.
StoreReturn(i) ==
  /\ ing[i].pc = "storing"
  /\ ing[i].stored = Len(ing[i].output)
  /\ ing' = [ing EXCEPT ![i].pc = "DONE", ![i].replies = SendResponse(@, SuccessResponse)]
  /\ UNCHANGED <<chatVars, combineVars, crawlSeed, crawled, site, index, nextIng>>

\* lines 140-143: the crawl, the embedding or a write failed.
IngestCatch(i) ==
  /\ IngestInFlight(i)
  /\ ing' = [ing EXCEPT ![i].pc = "FAILED",
                        ![i].replies = SendResponse(@, CatchResponse(ing[i].pc))]
  /\ UNCHANGED <<chatVars, combineVars, crawlSeed, crawled, site, index, nextIng>>

IngestNext ==
  \/ \E url \in Pages : IngestReceive(url)
  \/ \E i \in Ingestions : CrawlReturn(i)
  \/ \E i \in Ingestions : StoreRecord(i)
  \/ \E i \in Ingestions : StoreReturn(i)
  \/ \E i \in Ingestions : IngestCatch(i)

IngestSpec == IngestInit /\ [][IngestNext]_vars

\* ---------------------------------------------------------------- the crawl alone
CrawlInit ==
  /\ ChatInit /\ CombineIdle
  /\ site \in [Pages -> SUBSET Pages]
  /\ index = <<>>
  /\ nextIng = 0
  /\ ing = [i \in Ingestions |-> IdleIngestion]
  /\ crawlSeed \in Pages
  /\ crawled = <<>>

\* lines 119-125 applied to the site from crawlSeed
CrawlApply ==
  /\ crawled = <<>>
  /\ crawled' = Crawl(site, crawlSeed, MaxDepth)
  /\ UNCHANGED <<chatVars, combineVars, site, index, nextIng, ing, crawlSeed>>

CrawlNext == CrawlApply

CrawlSpec == CrawlInit /\ [][CrawlNext]_vars

\* ---------------------------------------------------------------- observations
Stages(cs) == [i \in 1..Len(cs) |-> cs[i].stage]

StageOrder == <<"rewriter", "retriever", "synthesis">>

PipelineStates ==
  <<"RECEIVED", "HISTORY_LOADED", "QUESTION_REWRITTEN", "CONTEXT_RETRIEVED",
    "ANSWER_SYNTHESIZED", "HISTORY_APPENDED", "RESPONDED">>

Last(s) == s[Len(s)]

\* request r takes this step
Acts(r) == trace'[r] # trace[r]

AllStagesSucceeded(r) ==
  {"QUESTION_REWRITTEN", "CONTEXT_RETRIEVED", "ANSWER_SYNTHESIZED"} \subseteq Range(trace[r])

\* ---------------------------------------------------------------- claims

\* C1: a chat request that fails leaves the stored transcript of its identity
\* as it was when the request arrived (checked on the failing step of a
\* request that shared no time in flight with another request of its identity).
C1_FailureLeavesTranscript ==
  [][\A r \in Requests :
       (req[r].pc # "FAILED" /\ req'[r].pc = "FAILED" /\ ~overlapped[r])
         => TranscriptNext(req[r].userId) = before[r]]_vars

\* C2: the stored transcript of every identity is append-only: in every step
\* the previous stored transcript is a prefix of the new one.
C2_TranscriptAppendOnly ==
  [][\A u \in UserIds : IsPrefix(Transcript(u), TranscriptNext(u))]_vars

\* C3: when all n requests of an identity have completed with an answer, the
\* identity's stored transcript holds exactly 2n entries.
C3_TwoEntriesPerCycle ==
  \A u \in UserIds :
    LET mine == {r \in Requests : req[r].userId = u}
    IN (\A r \in mine : req[r].pc = "RESPONDED") => Len(Transcript(u)) = 2 * Cardinality(mine)

\* C4: a request passes the pipeline states in the documented order, and its
\* steps do not modify the stored transcript of its identity before it has
\* reached ANSWER_SYNTHESIZED.
C4_StoreUntouchedBeforeSynthesis ==
  [][\A r \in Requests :
       Acts(r) =>
         /\ \/ IsPrefix(trace'[r], PipelineStates)
            \/ /\ Last(trace'[r]) = "FAILED"
               /\ IsPrefix(SubSeq(trace'[r], 1, Len(trace'[r]) - 1), PipelineStates)
         /\ "ANSWER_SYNTHESIZED" \notin Range(trace'[r])
              => TranscriptNext(req'[r].userId) = Transcript(req'[r].userId)]_vars

\* C5: the stages of a request are called in sequence: the retriever is called
\* in the step in which the rewriter returns, with the rewriter's output as its
\* query; the synthesis is called in the step in which the retriever returns;
\* a request that has failed issues no call.
C5_StagesInSequence ==
  [][\A r \in Requests :
       calls'[r] # calls[r] =>
         LET call == Last(calls'[r])
         IN /\ calls'[r] = Append(calls[r], call)
            /\ IsPrefix(Stages(calls'[r]), StageOrder)
            /\ "FAILED" \notin Range(trace[r])
            /\ call.stage = "retriever" =>
                 /\ req[r].pc = "rewriting"
                 /\ req'[r].standalone_question \in StandaloneQuestions
                 /\ call.args.query = req'[r].standalone_question
            /\ call.stage = "synthesis" =>
                 /\ req[r].pc = "retrieving"
                 /\ req[r].standalone_question \in StandaloneQuestions
                 /\ req'[r].context # NoValue]_vars

C5_Witness ==
  \E r \in Requests :
    /\ Stages(calls[r]) = StageOrder
    /\ calls[r][2].args.query = req[r].standalone_question

\* C6: the synthesis call receives the request's original question, the
\* history text the chain was invoked with, and the context its own retrieval
\* stage produced.
C6_SynthesisInputs ==
  \A r \in Requests :
    \A i \in 1..Len(calls[r]) :
      calls[r][i].stage = "synthesis" =>
        /\ calls[r][i].args.question = req[r].question
        /\ calls[r][i].args.question \notin StandaloneQuestions
        /\ calls[r][i].args.conv_history = calls[r][1].args.conv_history
        /\ calls[r][i].args.conv_history =
             formatConvHistory(Append(before[r], HumanEntry(req[r].question)))
        /\ calls[r][i].args.context = req[r].context
        /\ req[r].context \in {combineDocuments(docs) : docs \in DocLists}

C6_Witness ==
  \E r \in Requests :
    /\ Len(calls[r]) = 3
    /\ calls[r][3].args.question = req[r].question
    /\ before[r] # <<>>

\* C7: a request that terminates has received exactly one response: 200 with
\* the answer iff all three stages succeeded, else the one 500 body; a request
\* still in flight has received none.
C7_OneUniformResponse ==
  \A r \in Requests :
    /\ ~Terminated(r) => replies[r] = <<>>
    /\ Terminated(r) =>
         /\ Len(replies[r]) = 1
         /\ replies[r][1].status = 200 <=> AllStagesSucceeded(r)
         /\ AllStagesSucceeded(r) => replies[r][1] = [status |-> 200,
                                                      body |-> [response |-> req[r].response]]
         /\ ~AllStagesSucceeded(r) =>
              replies[r][1] = [status |-> 500, body |-> [error |-> "Internal Server Error"]]
    /\ \A p \in Requests :
         (req[r].pc = "FAILED" /\ req[p].pc = "FAILED") => replies[r] = replies[p]

C7_Witness ==
  \E r, p \in Requests :
    /\ req[r].pc = "FAILED" /\ req[p].pc = "FAILED"
    /\ Len(calls[r]) # Len(calls[p])
    /\ replies[r] = replies[p] /\ Len(replies[r]) = 1

\* C8: when two requests of one identity have both been answered, the entries
\* of both are in that identity's transcript (the questions differ, so that
\* the entries tell the requests apart).
C8_BothRequestsAppended ==
  \A r, p \in Requests :
    (/\ r # p
     /\ req[r].pc = "RESPONDED" /\ req[p].pc = "RESPONDED"
     /\ req[r].userId = req[p].userId
     /\ req[r].question # req[p].question)
      => {HumanEntry(req[r].question), AIEntry(req[r].response),
          HumanEntry(req[p].question), AIEntry(req[p].response)}
           \subseteq Range(Transcript(req[r].userId))

\* C9: every request that has been received ends up terminated (RESPONDED or
\* FAILED) with one response, unless one of its downstream calls never
\* returns; and a request whose downstream call never returns stays in flight
\* and is never answered.
C9_RunsToCompletion ==
  /\ \A r \in Requests :
       <>[](\/ req[r].pc = "idle"
            \/ Terminated(r) /\ Len(replies[r]) = 1
            \/ req[r].stalled)
  /\ [](\A r \in Requests : req[r].stalled => (InFlight(r) /\ replies[r] = <<>>))

C9_Witness ==
  \E r, p \in Requests :
    /\ req[r].stalled /\ replies[r] = <<>>
    /\ Terminated(p) /\ Len(replies[p]) = 1

\* C10: no retries: each stage is called at most once per request, and a
\* failure is terminal: the step that fails a request puts it in FAILED without
\* issuing a call, and a FAILED request stays FAILED and issues no call.
C10_NoRetries ==
  [][\A r \in Requests :
       /\ \A i, j \in 1..Len(calls'[r]) : calls'[r][i].stage = calls'[r][j].stage => i = j
       /\ (Acts(r) /\ Last(trace'[r]) = "FAILED") =>
            (req'[r].pc = "FAILED" /\ calls'[r] = calls[r])
       /\ req[r].pc = "FAILED" => (req'[r].pc = "FAILED" /\ calls'[r] = calls[r])]_vars

C10_Witness ==
  \E r \in Requests :
    /\ req[r].pc = "FAILED"
    /\ Len(calls[r]) = 2
    /\ \E p \in Requests : p > r /\ req[p].pc = "RESPONDED"

\* the texts of docs[1..n] with a blank line between, built from the left
RECURSIVE ExpectedContext(_, _)
ExpectedContext(docs, n) ==
  IF n = 0 THEN ""
  ELSE IF n = 1 THEN docs[1].pageContent
  ELSE ExpectedContext(docs, n - 1) \o "\n\n" \o docs[n].pageContent

\* C11: the context combineDocuments returns for d1..dn is text(d1), a blank
\* line, text(d2), ..., text(dn): every document, in the order given, also
\* when documents repeat; the empty string for no documents.
C11_ContextIsJoinInOrder ==
  ccontext # NoValue =>
    /\ ccontext = ExpectedContext(cdocs, Len(cdocs))
    /\ Len(cdocs) = 0 => ccontext = ""

C11_Witness ==
  /\ cdocs = <<[pageContent |-> "d2"], [pageContent |-> "d1"], [pageContent |-> "d1"]>>
  /\ ccontext = "d2\n\nd1\n\nd1"

\* the rows of the index written by the ingestions in is, in order
RowsBy(is) == SelectSeq(index, LAMBDA row : row.by \in is)

\* the chunks an ingestion of url produces on the site
ChunksOf(url) == SplitText(Stringify(Crawl(site, url, MaxDepth)))

\* C12: the index holds, for every ingestion, exactly the rows it has written
\* (none is replaced or removed by a later ingestion), so n completed
\* ingestions of a URL that yields c chunks account for n * c rows.
C12_IngestionAddsRecords ==
  /\ \A i \in Ingestions :
       RowsBy({i}) = [k \in 1..ing[i].stored |-> [content |-> ing[i].output[k], by |-> i]]
  /\ \A url \in Pages :
       LET done == {i \in Ingestions : ing[i].pc = "DONE" /\ ing[i].url = url}
       IN Len(RowsBy(done)) = Cardinality(done) * Len(ChunksOf(url))

C12_Witness ==
  \E i, j \in Ingestions :
    /\ i # j /\ ing[i].pc = "DONE" /\ ing[j].pc = "DONE"
    /\ ing[i].url = ing[j].url
    /\ Len(ing[i].output) = 2
    /\ Len(index) = 4

\* C13: an ingestion answered 200 has all its chunks in the index, and an
\* ingestion that failed is answered 500 and has no row in the index.
C13_IngestionAtomic ==
  \A i \in Ingestions :
    /\ ing[i].pc = "DONE" =>
         /\ ing[i].replies = <<SuccessResponse>>
         /\ Len(RowsBy({i})) = Len(ing[i].output)
    /\ ing[i].pc = "FAILED" =>
         /\ Len(ing[i].replies) = 1 /\ ing[i].replies[1].status = 500
         /\ RowsBy({i}) = <<>>
    /\ ing[i].pc \notin {"DONE", "FAILED"} => ing[i].replies = <<>>

\* the pages reachable from the pages of S by links
RECURSIVE Closure(_, _)
Closure(links, S) ==
  LET T == S \cup UNION {links[p] : p \in S}
  IN IF T = S THEN S ELSE Closure(links, T)

C15_HistoryOfEarlierTurns ==
  \A r \in Requests :
    req[r].pc # "idle" =>
      /\ Len(SelectSeq(calls[r], LAMBDA c : c.stage = "rewriter")) = 1
      /\ calls[r][1].args.conv_history = formatConvHistory(before[r])
      /\ before[r] = <<>> => calls[r][1].args.conv_history = ""

\* the entries that requests of user u produce
EntriesOf(u) ==
  UNION {{HumanEntry(req[p].question), AIEntry(req[p].response)} :
           p \in {p \in Requests : req[p].userId = u}}

\* C16: a step of a request of u leaves the stored transcript of every other
\* identity unchanged, the array the request works on is no other identity's,
\* and its history text is made of entries of requests of u.
C16_OtherIdentitiesUntouched ==
  [][\A r \in Requests :
       Acts(r) =>
         LET u == req'[r].userId
         IN /\ \A v \in UserIds \ {u} :
                 /\ userConvHistories'[v] = userConvHistories[v]
                 /\ TranscriptNext(v) = Transcript(v)
                 /\ userConvHistories'[v] # req'[r].convHistory
            /\ \A p \in Requests :
                 (req'[p].pc # "idle" /\ req'[p].userId # u)
                   => req'[p].convHistory # req'[r].convHistory
            /\ req'[r].conv_history =
                 formatConvHistory(Append(before'[r], HumanEntry(req'[r].question)))
            /\ Range(before'[r]) \subseteq EntriesOf(u)]_vars

C16_Witness ==
  \E r, p \in Requests :
    /\ req[r].userId = "ip1" /\ req[p].userId = "ip2"
    /\ req[r].pc = "RESPONDED" /\ req[p].pc = "RESPONDED"
    /\ Transcript("ip1") # <<>> /\ Transcript("ip2") # <<>>

\* C17: the rewriter call and the synthesis call of a request carry the same
\* history text, the one formatted when the chain was invoked, whatever has
\* been appended to the request's array since.
C17_HistoryTextFixed ==
  \A r \in Requests :
    \A i \in 1..Len(calls[r]) :
      calls[r][i].stage \in {"rewriter", "synthesis"} =>
        /\ calls[r][i].args.conv_history = calls[r][1].args.conv_history
        /\ calls[r][i].args.conv_history =
             formatConvHistory(Append(before[r], HumanEntry(req[r].question)))

C17_Witness ==
  \E r, p \in Requests :
    /\ p > r /\ req[p].convHistory = req[r].convHistory
    /\ Stages(calls[r]) = StageOrder /\ req[r].pc = "synthesizing"
    /\ req[p].pc = "RESPONDED"
    /\ calls[r][3].args.conv_history = calls[r][1].args.conv_history
    /\ calls[r][3].args.conv_history # formatConvHistory(heap[req[r].convHistory])

\* C18: in the step that sends 200 {response}, the stored transcript of the
\* identity holds the request's Human entry and, after it, the AI entry with
\* the response text sent.
C18_RespondedAfterAppend ==
  [][\A r \in Requests :
       (replies'[r] # replies[r] /\ Last(replies'[r]).status = 200) =>
         LET t == TranscriptNext(req[r].userId)
             sent == Last(replies'[r]).body.response
         IN \E i, j \in 1..Len(t) :
              /\ i < j
              /\ t[i] = HumanEntry(req[r].question)
              /\ t[j] = AIEntry(sent)]_vars

C18_Witness ==
  \E r \in Requests :
    /\ req[r].pc = "RESPONDED"
    /\ replies[r] = <<OkResponse(req[r].response)>>
    /\ overlapped[r]
    /\ AIEntry(req[r].response) \in Range(Transcript(req[r].userId))

====
